---- MODULE Spec2Model ----
(***************************************************************************)
(* A model of server.py: the launcher (argument parsing, lines 79-102),    *)
(* the request handler GameHTTPRequestHandler (lines 10-27) on top of the  *)
(* standard library's SimpleHTTPRequestHandler, and the life cycle of a    *)
(* GameServer (lines 29-77).                                               *)
(*                                                                         *)
(* Strings that the program inspects character by character (arguments,   *)
(* file names) are sequences of one-character strings.                     *)
(***************************************************************************)
EXTENDS Integers, Sequences, FiniteSets, TLC

VARIABLES
    \* ---- launcher (lines 79-102) ----
    argv,       \* sys.argv[1:], a sequence of strings
    lpc,        \* position of the launcher: "parse", "expand", "construct", "built", "crashed"
    PORT,       \* the launcher's PORT
    GAME_DIR,   \* the launcher's GAME_DIR
    server,     \* the constructed GameServer's (port, directory), or NoServer
    \* ---- request handler (lines 10-27) ----
    fs,         \* the file system: the set of existing entries
    request,    \* the last request read, or NoRequest
    response,   \* the response written for it, or NoResponse
    \* ---- GameServer life cycle (lines 29-77) ----
    mode,       \* "main": run as a script; "lib": GameServer driven by a caller
    handler,    \* the SIGINT handler: "default" or "signal_handler"
    pc,         \* position of the main thread
    pc2,        \* position of a second thread that may call stop()
    httpd,      \* self.httpd: None or the TCPServer's state
    env,        \* the environment: directory, port, stdout, TIME_WAIT
    hist,       \* what has happened so far (history, for the properties)
    exitStatus  \* the process's exit status, or Running

launcherVars == <<argv, lpc, PORT, GAME_DIR, server>>
handlerVars  == <<fs, request, response>>
serverVars   == <<mode, handler, pc, pc2, httpd, env, hist, exitStatus>>
vars == <<argv, lpc, PORT, GAME_DIR, server, fs, request, response,
          mode, handler, pc, pc2, httpd, env, hist, exitStatus>>

-----------------------------------------------------------------------------
(* Strings                                                                 *)

StartsWith(s, p) == Len(p) <= Len(s) /\ SubSeq(s, 1, Len(p)) = p

EndsWith(s, p) == Len(p) <= Len(s) /\ SubSeq(s, Len(s) - Len(p) + 1, Len(s)) = p

\* sub in s
Contains(s, sub) ==
    \E i \in 1..(Len(s) - Len(sub) + 1) : SubSeq(s, i, i + Len(sub) - 1) = sub

\* s.find(c, from): the least index >= from holding c, or 0
Find(s, c, from) ==
    IF \E i \in from..Len(s) : s[i] = c
    THEN CHOOSE i \in from..Len(s) : s[i] = c /\ \A j \in from..(i - 1) : s[j] # c
    ELSE 0

RECURSIVE LStrip(_)
LStrip(s) == IF s # <<>> /\ Head(s) = " " THEN LStrip(Tail(s)) ELSE s

RECURSIVE RStrip(_, _)
RStrip(s, c) ==
    IF s # <<>> /\ s[Len(s)] = c THEN RStrip(SubSeq(s, 1, Len(s) - 1), c) ELSE s

Digits == {"0", "1", "2", "3", "4", "5", "6", "7", "8", "9"}

DigitValue(c) ==
    CASE c = "0" -> 0 [] c = "1" -> 1 [] c = "2" -> 2 [] c = "3" -> 3 [] c = "4" -> 4
      [] c = "5" -> 5 [] c = "6" -> 6 [] c = "7" -> 7 [] c = "8" -> 8 [] c = "9" -> 9

RECURSIVE DecimalValue(_, _)
DecimalValue(s, acc) ==
    IF s = <<>> THEN acc
    ELSE IF Head(s) = "_" THEN DecimalValue(Tail(s), acc)
    ELSE DecimalValue(Tail(s), 10 * acc + DigitValue(Head(s)))

\* digits, with single underscores between digits
IsDecimalLiteral(s) ==
    /\ s # <<>>
    /\ \A i \in 1..Len(s) : s[i] \in Digits \cup {"_"}
    /\ s[1] \in Digits /\ s[Len(s)] \in Digits
    /\ \A i \in 1..(Len(s) - 1) : ~(s[i] = "_" /\ s[i + 1] = "_")

\* int(s) for a str: surrounding blanks stripped, an optional sign, a decimal
\* literal.  ok = FALSE stands for ValueError.
IntParse(s) ==
    LET t    == RStrip(LStrip(s), " ")
        sign == IF t # <<>> /\ Head(t) \in {"+", "-"} THEN Head(t) ELSE ""
        body == IF sign = "" THEN t ELSE Tail(t)
    IN  IF IsDecimalLiteral(body)
        THEN [ok |-> TRUE,
              val |-> IF sign = "-" THEN 0 - DecimalValue(body, 0)
                                    ELSE DecimalValue(body, 0)]
        ELSE [ok |-> FALSE, val |-> 0]

-----------------------------------------------------------------------------
(* The launcher                                                            *)

DefaultPort == 8000

\* os.getcwd() at invocation, and the invoking user's home directory
Cwd  == <<"/", "w">>
Home == <<"/", "h">>

\* os.path.expanduser: a leading "~" alone or before "/" becomes the home
\* directory; "~name" of an unknown user, and any other path, is unchanged.
ExpandUser(path) ==
    IF ~StartsWith(path, <<"~">>) THEN path
    ELSE LET f == Find(path, "/", 2)
             i == IF f = 0 THEN Len(path) + 1 ELSE f
         IN  IF i = 2
             THEN LET r == RStrip(Home, "/") \o SubSeq(path, i, Len(path))
                  IN  IF r = <<>> THEN <<"/">> ELSE r
             ELSE path

ICloud == <<"i", "C", "l", "o", "u", "d">>

NoServer == [built |-> FALSE]

\* the arguments the launcher is run with
ArgPool ==
    { <<"9", "0", "9", "0">>,
      <<"8", "0">>,
      <<"-", "1">>,
      <<" ", "7", " ">>,
      <<"1", "_", "0">>,
      <<"8", "a">>,
      <<"1", ".", "5">>,
      <<>>,
      <<"g">>,
      <<"~">>,
      <<"~", "/", "g">>,
      <<"~", "/", "i", "C", "l", "o", "u", "d", "/", "g">>,
      <<"~", "i", "C", "l", "o", "u", "d">>,
      <<"/", "i", "C", "l", "o", "u", "d", "~">> }

MaxArgs == 2

ArgLists == UNION { [1..n -> ArgPool] : n \in 0..MaxArgs }

\* lines 83-85
InitLauncher ==
    /\ argv \in ArgLists
    /\ lpc = "parse"
    /\ PORT = DefaultPort
    /\ GAME_DIR = Cwd
    /\ server = NoServer

\* lines 88-94 with the second argument never read
ParseArgsFirstOnly ==
    /\ lpc = "parse"
    /\ IF Len(argv) > 0
       THEN IF IntParse(argv[1]).ok
            THEN /\ PORT' = IntParse(argv[1]).val
                 /\ GAME_DIR' = GAME_DIR
            ELSE /\ GAME_DIR' = argv[1]
                 /\ PORT' = PORT
       ELSE UNCHANGED <<PORT, GAME_DIR>>
    /\ lpc' = "expand"
    /\ UNCHANGED <<argv, server>>
    /\ UNCHANGED <<handlerVars, serverVars>>

\* lines 88-94
ParseArgs ==
    /\ lpc = "parse"
    /\ IF Len(argv) > 0
       THEN IF IntParse(argv[1]).ok
            THEN /\ PORT' = IntParse(argv[1]).val
                 /\ GAME_DIR' = GAME_DIR
                 /\ lpc' = "expand"
            ELSE /\ GAME_DIR' = argv[1]
                 /\ IF Len(argv) > 1
                    THEN IF IntParse(argv[2]).ok
                         THEN PORT' = IntParse(argv[2]).val /\ lpc' = "expand"
                         ELSE PORT' = PORT /\ lpc' = "crashed"
                    ELSE PORT' = PORT /\ lpc' = "expand"
       ELSE /\ lpc' = "expand"
            /\ UNCHANGED <<PORT, GAME_DIR>>
    /\ UNCHANGED <<argv, server>>
    /\ UNCHANGED <<handlerVars, serverVars>>

\* lines 96-98
ExpandICloudPath ==
    /\ lpc = "expand"
    /\ GAME_DIR' = IF Contains(GAME_DIR, ICloud) /\ Contains(GAME_DIR, <<"~">>)
                   THEN ExpandUser(GAME_DIR)
                   ELSE GAME_DIR
    /\ lpc' = "construct"
    /\ UNCHANGED <<argv, PORT, server>>
    /\ UNCHANGED <<handlerVars, serverVars>>

\* line 101 and GameServer.__init__, lines 30-33
GameServerInit(port, directory) ==
    [built |-> TRUE,
     port |-> port,
     directory |-> IF directory # <<>> THEN directory ELSE Cwd]

Construct ==
    /\ lpc = "construct"
    /\ server' = GameServerInit(PORT, GAME_DIR)
    /\ lpc' = "built"
    /\ UNCHANGED <<argv, PORT, GAME_DIR>>
    /\ UNCHANGED <<handlerVars, serverVars>>

NextLauncher == ParseArgs \/ ExpandICloudPath \/ Construct

-----------------------------------------------------------------------------
(* The request handler: GameHTTPRequestHandler over the standard          *)
(* library's SimpleHTTPRequestHandler                                      *)

\* file and directory names
Dot      == <<".">>
DotDot   == <<".", ".">>
srv      == <<"s", "r", "v">>
etc      == <<"e", "t", "c">>
passwd   == <<"p", "w">>
IndexHtml == <<"i", "n", "d", "e", "x", ".", "h", "t", "m", "l">>
IndexHtm  == <<"i", "n", "d", "e", "x", ".", "h", "t", "m">>
a_js     == <<"a", ".", "j", "s">>
b_JS     == <<"b", ".", "J", "S">>
c_css    == <<"c", ".", "c", "s", "s">>
dot_js   == <<".", "j", "s">>

\* the directory served: the working directory after line 37's chdir, which
\* SimpleHTTPRequestHandler.__init__ reads with os.getcwd()
Root == <<srv>>

File(path) == [path |-> path, kind |-> "file"]
Dir(path)  == [path |-> path, kind |-> "dir"]

\* entries every file system of the model holds, and groups of entries that
\* may or may not exist
BaseEntries ==
    { Dir(<<>>), Dir(Root), File(Root \o <<a_js>>), Dir(<<etc>>), File(<<etc, passwd>>),
      File(<<a_js>>) }

OptionalGroups ==
    { { File(Root \o <<IndexHtml>>) },
      { Dir(Root \o <<etc>>), File(Root \o <<etc, passwd>>) },
      { Dir(Root \o <<dot_js>>) },
      { File(Root \o <<b_JS>>), File(Root \o <<c_css>>), File(Root \o <<passwd>>) } }

FileSystems == { BaseEntries \cup UNION g : g \in SUBSET OptionalGroups }

IsDir(f, path)  == Dir(path) \in f
IsFile(f, path) == File(path) \in f

RECURSIVE Join(_, _)
Join(segs, sep) ==
    IF segs = <<>> THEN <<>>
    ELSE IF Len(segs) = 1 THEN Head(segs)
    ELSE Head(segs) \o sep \o Join(Tail(segs), sep)

\* the path string of a file-system path
PathString(path, slash) ==
    <<"/">> \o Join(path, <<"/">>) \o (IF slash /\ path # <<>> THEN <<"/">> ELSE <<>>)

\* posixpath.normpath on the components of a path: "" and "." are dropped and
\* ".." removes the component before it; at the start of an absolute path ".."
\* is dropped, at the start of a relative one it is kept.
RECURSIVE NormPath(_, _, _)
NormPath(abs, comps, new) ==
    IF comps = <<>> THEN new
    ELSE LET comp == Head(comps)
         IN  IF comp = <<>> \/ comp = Dot
             THEN NormPath(abs, Tail(comps), new)
             ELSE IF comp # DotDot \/ (~abs /\ new = <<>>)
                     \/ (new # <<>> /\ new[Len(new)] = DotDot)
             THEN NormPath(abs, Tail(comps), Append(new, comp))
             ELSE IF new # <<>>
             THEN NormPath(abs, Tail(comps), SubSeq(new, 1, Len(new) - 1))
             ELSE NormPath(abs, Tail(comps), new)

\* the loop of translate_path: the words "." and ".." are skipped, the others
\* joined to the directory served
RECURSIVE JoinWords(_, _)
JoinWords(path, words) ==
    IF words = <<>> THEN path
    ELSE IF Head(words) \in {<<>>, Dot, DotDot}
    THEN JoinWords(path, Tail(words))
    ELSE JoinWords(Append(path, Head(words)), Tail(words))

\* whether the request's path ends in "/"
TrailingSlash(target) == target.slash \/ target.segs = <<>>

\* a path followed from a directory, ".." leading to the parent
RECURSIVE Resolve(_, _)
Resolve(path, segs) ==
    IF segs = <<>> THEN path
    ELSE IF Head(segs) \in {<<>>, Dot} THEN Resolve(path, Tail(segs))
    ELSE IF Head(segs) = DotDot
    THEN Resolve(IF path = <<>> THEN path ELSE SubSeq(path, 1, Len(path) - 1), Tail(segs))
    ELSE Resolve(Append(path, Head(segs)), Tail(segs))

\* translate_path joining the request's path to the directory as it is
TranslatePathUnchecked(target) == Resolve(Root, target.segs)

\* SimpleHTTPRequestHandler.translate_path
TranslatePath(target) == JoinWords(Root, NormPath(target.abs, target.segs, <<>>))

\* posixpath.splitext(p)[1]: from the last dot of the last component, unless
\* only dots precede it there
SplitExt(p) ==
    LET idx(c) == IF \E i \in 1..Len(p) : p[i] = c
                  THEN CHOOSE i \in 1..Len(p) : p[i] = c /\ \A j \in (i + 1)..Len(p) : p[j] # c
                  ELSE 0
        sepIndex == idx("/")
        dotIndex == idx(".")
    IN  IF dotIndex > sepIndex /\ \E k \in (sepIndex + 1)..(dotIndex - 1) : p[k] # "."
        THEN SubSeq(p, dotIndex, Len(p))
        ELSE <<>>

Lower(c) == CASE c = "J" -> "j" [] c = "S" -> "s" [] OTHER -> c

LowerString(s) == [i \in 1..Len(s) |-> Lower(s[i])]

\* the platform's table of types by extension (mimetypes.types_map)
TypesMap(ext) ==
    CASE ext = <<".", "j", "s">> -> "text/javascript"
      [] ext = <<".", "c", "s", "s">> -> "text/css"
      [] ext = <<".", "h", "t", "m", "l">> -> "text/html"
      [] ext = <<".", "h", "t", "m">> -> "text/html"
      [] ext = <<".", "t", "x", "t">> -> "text/plain"
      [] OTHER -> ""

\* SimpleHTTPRequestHandler.guess_type: the platform's guess, the extension
\* tried as written and then in lower case, application/octet-stream when unknown
BaseGuessType(p) ==
    LET ext == SplitExt(p)
    IN  IF TypesMap(ext) # "" THEN TypesMap(ext)
        ELSE IF TypesMap(LowerString(ext)) # "" THEN TypesMap(LowerString(ext))
        ELSE "application/octet-stream"

\* guess_type without the overrides of lines 21-26
GuessTypeNoOverride(p) == BaseGuessType(p)

\* lines 18-27
GuessType(p) ==
    LET mimetype == BaseGuessType(p)
    IN  IF EndsWith(p, <<".", "j", "s">>) THEN "application/javascript"
        ELSE IF EndsWith(p, <<".", "c", "s", "s">>) THEN "text/css"
        ELSE IF EndsWith(p, <<".", "h", "t", "m", "l">>) THEN "text/html"
        ELSE mimetype

\* BaseHTTPRequestHandler.send_header: nothing is written for an HTTP/0.9 request
SendHeader(buf, rv, keyword, value) ==
    IF rv # "HTTP/0.9" THEN Append(buf, <<keyword, value>>) ELSE buf

\* BaseHTTPRequestHandler.send_response: the status line, Server and Date
SendResponse(buf, rv, code) ==
    SendHeader(SendHeader(SendHeader(buf, rv, "status", ToString(code)), rv, "Server", "SimpleHTTP"),
               rv, "Date", "now")

\* end_headers with the last header left out
EndHeadersTwo(buf, rv) ==
    SendHeader(
        SendHeader(buf, rv, "Access-Control-Allow-Origin", "*"),
        rv, "Access-Control-Allow-Methods", "GET, POST, OPTIONS")

\* lines 11-16
EndHeaders(buf, rv) ==
    SendHeader(
        SendHeader(
            SendHeader(buf, rv, "Access-Control-Allow-Origin", "*"),
            rv, "Access-Control-Allow-Methods", "GET, POST, OPTIONS"),
        rv, "Access-Control-Allow-Headers", "*")

NoPath == <<<<>>>>

NoType == "none"

\* what is written to the connection: the headers, and the body's source: the
\* file opened (with the type guess_type gave for it) or the directory listed
Response(rv, code, ctype, buf, opened, listed) ==
    [rv |-> rv, status |-> code, ctype |-> ctype, headers |-> buf,
     opened |-> opened, listed |-> listed]

\* BaseHTTPRequestHandler.send_error
SendError(rv, code) ==
    Response(rv, code, NoType,
        EndHeaders(
            SendHeader(
                SendHeader(
                    SendHeader(SendResponse(<<>>, rv, code), rv, "Connection", "close"),
                    rv, "Content-Type", "text/html;charset=utf-8"),
                rv, "Content-Length", "n"),
            rv),
        NoPath, NoPath)

\* SimpleHTTPRequestHandler.send_head and list_directory
SendHead(f, rv, target) ==
    LET translated == TranslatePath(target)
        slash == TrailingSlash(target)
        isdir == IsDir(f, translated)
        index == IF IsFile(f, translated \o <<IndexHtml>>) THEN translated \o <<IndexHtml>>
                 ELSE IF IsFile(f, translated \o <<IndexHtm>>) THEN translated \o <<IndexHtm>>
                 ELSE NoPath
        path  == IF isdir /\ index # NoPath THEN index ELSE translated
        pslash == IF isdir /\ index # NoPath THEN FALSE ELSE slash
        ctype == GuessType(PathString(path, pslash))
    IN  IF isdir /\ ~target.slash /\ target.segs # <<>>
        THEN Response(rv, 301, NoType,
                 EndHeaders(
                     SendHeader(SendHeader(SendResponse(<<>>, rv, 301), rv, "Location", "dir/"),
                                rv, "Content-Length", "0"),
                     rv),
                 NoPath, NoPath)
        ELSE IF isdir /\ index = NoPath
        THEN Response(rv, 200, NoType,
                 EndHeaders(
                     SendHeader(
                         SendHeader(SendResponse(<<>>, rv, 200), rv,
                                    "Content-type", "text/html; charset=utf-8"),
                         rv, "Content-Length", "n"),
                     rv),
                 NoPath, translated)
        ELSE IF pslash \/ ~IsFile(f, path)
        THEN SendError(rv, 404)
        ELSE Response(rv, 200, ctype,
                 EndHeaders(
                     SendHeader(
                         SendHeader(
                             SendHeader(SendResponse(<<>>, rv, 200), rv, "Content-type", ctype),
                             rv, "Content-Length", "n"),
                         rv, "Last-Modified", "mtime"),
                     rv),
                 path, NoPath)

\* BaseHTTPRequestHandler.parse_request and handle_one_request: the request
\* line's version is checked first, while request_version still holds the
\* default "HTTP/0.9"; then the method is looked up
HandleOneRequest(f, r) ==
    IF r.version = "bad" THEN SendError("HTTP/0.9", 400)
    ELSE IF r.version = "HTTP/2.0" THEN SendError("HTTP/0.9", 505)
    ELSE IF r.version = "HTTP/0.9" /\ r.command # "GET" THEN SendError("HTTP/0.9", 400)
    ELSE IF r.command \notin {"GET", "HEAD"} THEN SendError(r.version, 501)
    ELSE SendHead(f, r.version, r.target)

MaxSegs == 2

Names == {DotDot, Dot, etc, passwd, IndexHtml, a_js, dot_js, b_JS, c_css}

Targets ==
    { [abs |-> a, segs |-> s, slash |-> t] :
        a \in BOOLEAN,
        s \in UNION { [1..n -> Names] : n \in 0..MaxSegs },
        t \in BOOLEAN }

Requests ==
    { [command |-> c, version |-> v, target |-> t] :
        c \in {"GET", "HEAD", "POST"},
        v \in {"HTTP/0.9", "HTTP/1.0", "HTTP/2.0", "bad"},
        t \in Targets }

NoRequest  == [command |-> "none", version |-> "none",
               target |-> [abs |-> TRUE, segs |-> <<>>, slash |-> FALSE]]
NoResponse == Response("none", 0, NoType, <<>>, NoPath, NoPath)

\* a connection is accepted and its request line read by a fresh handler
InitHandler ==
    /\ fs \in FileSystems
    /\ request \in Requests
    /\ ~(request.target.segs = <<>> /\ ~request.target.abs)
    /\ ~(request.target.segs = <<>> /\ request.target.slash)
    /\ response = NoResponse

\* the request answered: handle_one_request
Handle ==
    /\ response = NoResponse
    /\ response' = HandleOneRequest(fs, request)
    /\ UNCHANGED <<fs, request>>
    /\ UNCHANGED <<launcherVars, serverVars>>

NextHandler == Handle


-----------------------------------------------------------------------------
(* The life cycle of a GameServer, lines 29-81                             *)

Running == -1

None == [set |-> FALSE]

\* socketserver.TCPServer.__init__: the socket bound and listening, the event
\* __is_shut_down clear, __shutdown_request False
NewTCPServer ==
    [set |-> TRUE, sock |-> "listening", isShutDown |-> FALSE, shutdownRequest |-> FALSE]

MaxStarts     == 2
MaxInterrupts == 2
MaxRequests   == 1

\* how one subprocess.run(['open', '-a', ...], check=False) can end: the
\* command ran and exited 0, ran and exited nonzero (no such application), or
\* could not be run (OSError)
RunOutcomes == {"exit0", "nonzero", "raised"}

\* what webbrowser.open returns
OpenOutcomes == {"opened", "notopened"}

NoHistory ==
    [cwdChanged |-> FALSE, starts |-> 0, binds |-> 0, tried |-> <<>>, requests |-> 0,
     everServing |-> FALSE, stopped |-> FALSE, failure |-> "none", interrupts |-> 0,
     interruptedAt |-> "none", exitRequested |-> FALSE, stopRaised |-> FALSE]

\* GameServer.__init__, lines 30-33 (self.httpd = None); as a script the run
\* starts at line 81
InitServer ==
    /\ mode \in {"main", "lib"}
    /\ handler = "default"
    /\ pc = IF mode = "main" THEN "register" ELSE "idle"
    /\ pc2 = IF mode = "main" THEN "none" ELSE "idle"
    /\ httpd = None
    /\ env \in [dirExists : BOOLEAN, portBusy : BOOLEAN, stdoutOk : BOOLEAN, timeWait : {FALSE}]
    /\ hist = NoHistory
    /\ exitStatus = Running

Frame == UNCHANGED <<launcherVars, handlerVars>>

\* the process ends: the kernel closes its sockets
Closed(h) == IF h.set THEN [h EXCEPT !.sock = "closed"] ELSE h

\* an exception leaves start() or stop().  As a script nothing catches it: the
\* process ends, with status 0 for SystemExit(0) raised by signal_handler
\* (line 77), by SIGINT for KeyboardInterrupt, 1 for any other exception.  A
\* caller of the class gets the exception back.
ExitCode(exc) ==
    CASE exc = "SystemExit" -> 0
      [] exc = "KeyboardInterrupt" -> 130
      [] OTHER -> 1

Propagate(exc, h) ==
    IF mode = "main"
    THEN /\ pc' = "exited"
         /\ exitStatus' = ExitCode(exc)
         /\ httpd' = Closed(h)
    ELSE /\ pc' = "idle"
         /\ exitStatus' = exitStatus
         /\ httpd' = h

\* start() returns
Return(h) ==
    IF mode = "main"
    THEN /\ pc' = "exited"
         /\ exitStatus' = 0
         /\ httpd' = Closed(h)
    ELSE /\ pc' = "idle"
         /\ exitStatus' = exitStatus
         /\ httpd' = h

\* line 81
Register ==
    /\ pc = "register"
    /\ handler' = "signal_handler"
    /\ pc' = "launch"
    /\ UNCHANGED <<mode, pc2, httpd, env, hist, exitStatus>>
    /\ Frame

\* lines 83-102: the arguments read, the GameServer built, start() called
Launch ==
    /\ pc = "launch"
    /\ pc' = "chdir"
    /\ hist' = [hist EXCEPT !.starts = @ + 1]
    /\ UNCHANGED <<mode, handler, pc2, httpd, env, exitStatus>>
    /\ Frame

\* a caller of the class calls start()
CallStart ==
    /\ mode = "lib" /\ pc = "idle"
    /\ hist.starts < MaxStarts
    /\ pc' = "chdir"
    /\ hist' = [hist EXCEPT !.starts = @ + 1, !.failure = "none", !.tried = <<>>]
    /\ UNCHANGED <<mode, handler, pc2, httpd, env, exitStatus>>
    /\ Frame

\* line 37 with the failure of chdir ignored
ChdirIgnoringFailure ==
    /\ pc = "chdir"
    /\ pc' = "bind"
    /\ hist' = [hist EXCEPT !.cwdChanged = env.dirExists,
                            !.failure = IF env.dirExists THEN @ ELSE "chdir"]
    /\ UNCHANGED <<mode, handler, pc2, httpd, env, exitStatus>>
    /\ Frame

\* line 37
Chdir ==
    /\ pc = "chdir"
    /\ IF env.dirExists
       THEN /\ pc' = "bind"
            /\ hist' = [hist EXCEPT !.cwdChanged = TRUE]
            /\ UNCHANGED <<httpd, exitStatus>>
       ELSE /\ hist' = [hist EXCEPT !.failure = "chdir"]
            /\ Propagate("FileNotFoundError", httpd)
    /\ UNCHANGED <<mode, handler, pc2, env>>
    /\ Frame

\* whether a bind to the port succeeds now: no other process holds it, no
\* connection of an earlier listener lingers in TIME_WAIT (TCPServer leaves
\* allow_reuse_address False), and no socket of this process is bound to it
CanBind(e, h) == ~e.portBusy /\ ~e.timeWait /\ ~(h.set /\ h.sock = "listening")

\* line 40
Bind ==
    /\ pc = "bind"
    /\ IF CanBind(env, httpd)
       THEN /\ httpd' = NewTCPServer
            /\ pc' = "print"
            /\ hist' = [hist EXCEPT !.binds = @ + 1]
            \* a stop() about to wait on the replaced server's event, which is set
            /\ pc2' = IF pc2 = "shutdown" THEN "close" ELSE pc2
            /\ UNCHANGED exitStatus
       ELSE /\ hist' = [hist EXCEPT !.binds = @ + 1, !.failure = "bind"]
            /\ Propagate("OSError", httpd)
            /\ UNCHANGED pc2
    /\ UNCHANGED <<mode, handler, env>>
    /\ Frame

\* lines 42-46
PrintBanner ==
    /\ pc = "print"
    /\ IF env.stdoutOk
       THEN /\ pc' = "chrome"
            /\ UNCHANGED <<httpd, exitStatus, hist>>
       ELSE /\ hist' = [hist EXCEPT !.failure = "print"]
            /\ Propagate("UnicodeEncodeError", httpd)
    /\ UNCHANGED <<mode, handler, pc2, env>>
    /\ Frame

\* serve_forever is entered (line 64): __is_shut_down is cleared and the
\* socket registered with the selector, which fails on a closed socket; the
\* finally clause sets the event again
EnterServe(h, hi) ==
    IF h.sock = "listening"
    THEN /\ pc' = "serve"
         /\ httpd' = [h EXCEPT !.isShutDown = FALSE]
         /\ hist' = [hi EXCEPT !.everServing = TRUE]
         /\ UNCHANGED exitStatus
    ELSE /\ hist' = [hi EXCEPT !.failure = "serve"]
         /\ Propagate("ValueError", [h EXCEPT !.isShutDown = TRUE, !.shutdownRequest = FALSE])

\* lines 49-53: check=False, so a nonzero exit status raises nothing
TryChrome ==
    /\ pc = "chrome"
    /\ \E out \in RunOutcomes :
        LET hi == [hist EXCEPT !.tried = Append(@, <<"chrome", out>>)]
        IN  IF out = "raised"
            THEN /\ pc' = "firefox"
                 /\ hist' = hi
                 /\ UNCHANGED <<httpd, exitStatus>>
            ELSE EnterServe(httpd, hi)
    /\ UNCHANGED <<mode, handler, pc2, env>>
    /\ Frame

\* lines 54-58
TryFirefox ==
    /\ pc = "firefox"
    /\ \E out \in RunOutcomes :
        LET hi == [hist EXCEPT !.tried = Append(@, <<"firefox", out>>)]
        IN  IF out = "raised"
            THEN /\ pc' = "webbrowser"
                 /\ hist' = hi
                 /\ UNCHANGED <<httpd, exitStatus>>
            ELSE EnterServe(httpd, hi)
    /\ UNCHANGED <<mode, handler, pc2, env>>
    /\ Frame

\* lines 59-61
OpenDefault ==
    /\ pc = "webbrowser"
    /\ \E out \in OpenOutcomes :
        EnterServe(httpd, [hist EXCEPT !.tried = Append(@, <<"default", out>>)])
    /\ UNCHANGED <<mode, handler, pc2, env>>
    /\ Frame

\* one turn of serve_forever's loop with a connection waiting: it is accepted
\* and its request handled; closing it may leave it in TIME_WAIT
ServeRequest ==
    /\ pc = "serve"
    /\ ~httpd.shutdownRequest
    /\ httpd.sock = "listening"
    /\ hist.requests < MaxRequests
    /\ hist' = [hist EXCEPT !.requests = @ + 1]
    /\ \E tw \in BOOLEAN : env' = [env EXCEPT !.timeWait = @ \/ tw]
    /\ UNCHANGED <<mode, handler, pc, pc2, httpd, exitStatus>>
    /\ Frame

\* serve_forever sees __shutdown_request and leaves: its finally clause resets
\* the flag and sets __is_shut_down; start() returns
ServeExit ==
    /\ pc = "serve"
    /\ httpd.shutdownRequest
    /\ Return([httpd EXCEPT !.shutdownRequest = FALSE, !.isShutDown = TRUE])
    /\ UNCHANGED <<mode, handler, pc2, env, hist>>
    /\ Frame

\* the TIME_WAIT period of the lingering connections ends
TimeWaitExpires ==
    /\ env.timeWait
    /\ env' = [env EXCEPT !.timeWait = FALSE]
    /\ UNCHANGED <<mode, handler, pc, pc2, httpd, hist, exitStatus>>
    /\ Frame

\* SIGINT is delivered: the handler runs in the main thread and raises there,
\* SystemExit(0) from signal_handler (lines 75-77), KeyboardInterrupt from the
\* default handler.  The bare except clauses of lines 54 and 59 catch either;
\* line 65 catches KeyboardInterrupt alone.
Interrupt ==
    /\ pc \notin {"exited", "idle"}
    /\ hist.interrupts < MaxInterrupts
    /\ LET exc == IF handler = "signal_handler" THEN "SystemExit" ELSE "KeyboardInterrupt"
           hi  == [hist EXCEPT !.interrupts = @ + 1, !.interruptedAt = pc,
                               !.exitRequested = @ \/ (exc = "SystemExit")]
       IN  CASE pc = "chrome" ->
                  /\ pc' = "firefox"
                  /\ hist' = [hi EXCEPT !.tried = Append(@, <<"chrome", "interrupted">>)]
                  /\ UNCHANGED <<httpd, exitStatus>>
             [] pc = "firefox" ->
                  /\ pc' = "webbrowser"
                  /\ hist' = [hi EXCEPT !.tried = Append(@, <<"firefox", "interrupted">>)]
                  /\ UNCHANGED <<httpd, exitStatus>>
             [] pc = "serve" ->
                  LET h == [httpd EXCEPT !.shutdownRequest = FALSE, !.isShutDown = TRUE]
                  IN  IF exc = "KeyboardInterrupt"
                      THEN /\ pc' = "stop"
                           /\ httpd' = h
                           /\ hist' = hi
                           /\ UNCHANGED exitStatus
                      ELSE /\ hist' = hi
                           /\ Propagate(exc, h)
             [] OTHER ->
                  /\ hist' = hi
                  /\ Propagate(exc, httpd)
    /\ UNCHANGED <<mode, handler, pc2, env>>
    /\ Frame

\* a caller of the class calls stop() from the main thread
CallStop ==
    /\ mode = "lib" /\ pc = "idle"
    /\ pc' = "stop"
    /\ UNCHANGED <<mode, handler, pc2, httpd, env, hist, exitStatus>>
    /\ Frame

\* lines 69-71, up to the wait inside shutdown(): nothing when self.httpd is
\* None; else the message is printed, __shutdown_request set, and the thread
\* waits for __is_shut_down
StopBegin ==
    /\ pc = "stop"
    /\ IF ~httpd.set
       THEN /\ pc' = "idle"
            /\ UNCHANGED <<httpd, hist, exitStatus>>
       ELSE IF ~env.stdoutOk
       THEN /\ hist' = [hist EXCEPT !.stopRaised = TRUE]
            /\ Propagate("UnicodeEncodeError", httpd)
       ELSE /\ pc' = "shutdown"
            /\ httpd' = [httpd EXCEPT !.shutdownRequest = TRUE]
            /\ UNCHANGED <<hist, exitStatus>>
    /\ UNCHANGED <<mode, handler, pc2, env>>
    /\ Frame

\* shutdown() returns once __is_shut_down is set
StopWait ==
    /\ pc = "shutdown"
    /\ httpd.isShutDown
    /\ pc' = "close"
    /\ UNCHANGED <<mode, handler, pc2, httpd, env, hist, exitStatus>>
    /\ Frame

\* lines 72-73; stop() returns, and start() after it when stop() was called at line 66
StopClose ==
    /\ pc = "close"
    /\ hist' = [hist EXCEPT !.stopped = TRUE]
    /\ Return([httpd EXCEPT !.sock = "closed"])
    /\ UNCHANGED <<mode, handler, pc2, env>>
    /\ Frame

\* stop() called from a second thread: lines 69-71
Stop2Begin ==
    /\ pc2 = "idle"
    /\ httpd.set
    /\ env.stdoutOk
    /\ pc2' = "shutdown"
    /\ httpd' = [httpd EXCEPT !.shutdownRequest = TRUE]
    /\ UNCHANGED <<mode, handler, pc, env, hist, exitStatus>>
    /\ Frame

Stop2Wait ==
    /\ pc2 = "shutdown"
    /\ httpd.isShutDown
    /\ pc2' = "close"
    /\ UNCHANGED <<mode, handler, pc, httpd, env, hist, exitStatus>>
    /\ Frame

\* lines 72-73 in the second thread
Stop2Close ==
    /\ pc2 = "close"
    /\ pc2' = "idle"
    /\ httpd' = [httpd EXCEPT !.sock = "closed"]
    /\ hist' = [hist EXCEPT !.stopped = TRUE]
    /\ UNCHANGED <<mode, handler, pc, env, exitStatus>>
    /\ Frame

NextServer ==
    \/ Register \/ Launch \/ CallStart \/ Chdir \/ Bind \/ PrintBanner
    \/ TryChrome \/ TryFirefox \/ OpenDefault
    \/ ServeRequest \/ ServeExit \/ TimeWaitExpires \/ Interrupt
    \/ CallStop \/ StopBegin \/ StopWait \/ StopClose
    \/ Stop2Begin \/ Stop2Wait \/ Stop2Close

-----------------------------------------------------------------------------
(* Specifications                                                          *)

\* the values of the variables of the parts a specification leaves alone
ParkedLauncher ==
    /\ argv = <<>>
    /\ lpc = "parse"
    /\ PORT = DefaultPort
    /\ GAME_DIR = Cwd
    /\ server = NoServer

ParkedHandler ==
    /\ fs = BaseEntries
    /\ request = NoRequest
    /\ response = NoResponse

ParkedServer ==
    /\ mode = "main"
    /\ handler = "default"
    /\ pc = "register"
    /\ pc2 = "none"
    /\ httpd = None
    /\ env = [dirExists |-> TRUE, portBusy |-> FALSE, stdoutOk |-> TRUE, timeWait |-> FALSE]
    /\ hist = NoHistory
    /\ exitStatus = Running

\* the launcher run on every list of arguments
LauncherInit == InitLauncher /\ ParkedHandler /\ ParkedServer

SpecLauncher == LauncherInit /\ [][NextLauncher]_vars

\* one request answered, for every file system and request
HandlerInit == ParkedLauncher /\ InitHandler /\ ParkedServer

SpecHandler == HandlerInit /\ [][NextHandler]_vars

\* the life cycle of a GameServer, as a script and under a caller
Init == ParkedLauncher /\ ParkedHandler /\ InitServer

Spec == Init /\ [][NextServer]_vars


-----------------------------------------------------------------------------
(* Properties of the launcher                                              *)

FirstIsPort == Len(argv) > 0 /\ IntParse(argv[1]).ok

SecondIsPort == Len(argv) > 1 /\ IntParse(argv[2]).ok

\* the directory a non-numeric first argument stands for
ExpectedDirectory(a) ==
    IF a = <<>> THEN Cwd
    ELSE IF Contains(a, ICloud) /\ StartsWith(a, <<"~", "/">>) THEN Home \o Tail(a)
    ELSE a

-----------------------------------------------------------------------------
(* Properties of the request handler                                       *)

Answered == response # NoResponse

HeaderValues(h, keyword) == { h[i][2] : i \in { j \in 1..Len(h) : h[j][1] = keyword } }

HasCorsHeaders(h) ==
    /\ HeaderValues(h, "Access-Control-Allow-Origin") = {"*"}
    /\ HeaderValues(h, "Access-Control-Allow-Methods") = {"GET, POST, OPTIONS"}
    /\ HeaderValues(h, "Access-Control-Allow-Headers") = {"*"}

\* C1 as stated: every response, whatever the path and the status, carries
\* the three CORS headers with their values.
C1_CorsOnEveryResponse == Answered => HasCorsHeaders(response.headers)

\* C1 amended: every response to a request whose request line names HTTP/1.x
\* carries the three CORS headers with their values, whatever the path and
\* the status; a response to a request line without a version, or with a
\* version the server rejects (400, 505), carries no header at all.
C1_CorsOnEveryHeaderBlock ==
    Answered =>
        IF request.version \in {"HTTP/1.0", "HTTP/1.1"}
        THEN HasCorsHeaders(response.headers)
        ELSE response.headers = <<>>

C1_Witness ==
    /\ Answered
    /\ response.status = 404
    /\ request.target.segs # <<>>
    /\ HasCorsHeaders(response.headers)

\* the request reaches send_head
ReachesSendHead ==
    /\ request.command \in {"GET", "HEAD"}
    /\ request.version \in {"HTTP/1.0", "HTTP/1.1"} \/ (request.version = "HTTP/0.9" /\ request.command = "GET")

\* the request's path, resolved against the root directory, lies outside it
EscapesRoot(target) == ~StartsWith(Resolve(Root, target.segs), Root)

\* no content from outside the root directory is returned
NothingOutsideRoot ==
    /\ response.opened # NoPath => StartsWith(response.opened, Root)
    /\ response.listed # NoPath => StartsWith(response.listed, Root)

RECURSIVE Clamp(_, _)
Clamp(segs, acc) ==
    IF segs = <<>> THEN acc
    ELSE IF Head(segs) \in {<<>>, Dot} THEN Clamp(Tail(segs), acc)
    ELSE IF Head(segs) = DotDot
    THEN Clamp(Tail(segs), IF acc = <<>> THEN acc ELSE SubSeq(acc, 1, Len(acc) - 1))
    ELSE Clamp(Tail(segs), Append(acc, Head(segs)))

ExpectedType(p) ==
    IF EndsWith(p, <<".", "j", "s">>) THEN "application/javascript"
    ELSE IF EndsWith(p, <<".", "c", "s", "s">>) THEN "text/css"
    ELSE IF EndsWith(p, <<".", "h", "t", "m", "l">>) THEN "text/html"
    ELSE BaseGuessType(p)

-----------------------------------------------------------------------------
(* Properties of the life cycle                                            *)

Listening == httpd.set /\ httpd.sock = "listening"

\* C4 as stated: an interrupt delivered to the script in serve_forever ends
\* the accept loop and the process with status 0, and releases the listening
\* socket so that a bind to the same port then succeeds.
C4_InterruptWhileServing ==
    (mode = "main" /\ hist.interruptedAt = "serve" /\ hist.interrupts = 1) =>
        /\ pc = "exited"
        /\ exitStatus = 0
        /\ ~Listening
        /\ CanBind(env, httpd)

\* C5: as a script, when the root directory does not exist start() fails
\* before any bind is attempted; when the port cannot be bound start() fails
\* after the working directory was changed; either way the accept loop is
\* never entered, the bind is not tried again, and the process ends with a
\* nonzero status.
C5_StartFailure ==
    mode = "main" =>
        /\ hist.binds <= 1
        /\ ~env.dirExists => (hist.binds = 0 /\ ~httpd.set /\ ~hist.everServing)
        /\ hist.failure = "chdir" <=> (~env.dirExists /\ hist.cwdChanged = FALSE /\ pc = "exited"
                                        /\ hist.interruptedAt = "none")
        /\ hist.failure = "chdir" => (exitStatus # 0 /\ exitStatus # Running)
        /\ hist.failure = "bind" =>
              /\ hist.cwdChanged
              /\ env.portBusy
              /\ ~httpd.set
              /\ ~hist.everServing
              /\ pc = "exited"
              /\ exitStatus # 0 /\ exitStatus # Running
        /\ (env.portBusy /\ hist.binds = 1) => hist.failure = "bind"

C5_Witness ==
    /\ mode = "main"
    /\ hist.failure = "bind"
    /\ hist.cwdChanged
    /\ hist.binds = 1
    /\ exitStatus = 1

Failed(out) == out \in {"nonzero", "raised"}

NextStrategy(b) == IF b = "chrome" THEN "firefox" ELSE "default"

\* C6 as stated: the strategies are tried in order, the next one when one
\* fails, and whatever their outcomes start() goes on to the accept loop.
C6_BrowserFallback ==
    pc = "serve" =>
        /\ hist.tried # <<>>
        /\ hist.tried[1][1] = "chrome"
        /\ \A i \in 1..Len(hist.tried) :
              (Failed(hist.tried[i][2]) /\ hist.tried[i][1] # "default") =>
                  /\ i < Len(hist.tried)
                  /\ hist.tried[i + 1][1] = NextStrategy(hist.tried[i][1])

\* C8 as stated: stop() on a server that is not running returns without
\* blocking.  The main thread calls stop() only while the accept loop is not
\* running, so it never waits in shutdown() for an event that is not set.
C8_StopWhenNotRunning == ~(pc = "shutdown" /\ ~httpd.isShutDown)

\* C9 as stated: once the server has been stopped, it never serves again.
C9_StoppedIsTerminal == hist.stopped => pc # "serve"

\* C10 as stated: once signal_handler is registered, an interrupt ends the
\* process with status 0, wherever the script is.
C10_InterruptExits ==
    (mode = "main" /\ hist.exitRequested) => (pc = "exited" /\ exitStatus = 0)


====
